---- MODULE Spec2Model ----
(***************************************************************************)
(* Model of the ingest EntryWriter (src/entryWriter.go): a pipelined       *)
(* writer of entries over a byte stream, with a bounded confirmation       *)
(* buffer of unacknowledged entries and an ack reader that parses 12-byte  *)
(* Confirm frames from the peer.                                           *)
(*                                                                         *)
(* Every public method takes the writer's mutex for its whole body, so     *)
(* each public method is one action.  The peer and the network are the     *)
(* environment: PeerSend puts bytes in flight, PeerReset breaks the        *)
(* connection.  A blocking read that would wait forever (no bytes, no      *)
(* deadline, connection alive) makes the call not return: the action is    *)
(* not enabled in that state.                                              *)
(*                                                                         *)
(* The inbound stream is modelled byte by byte (little-endian codec, real  *)
(* magic bytes).  The outbound stream is modelled in units of the buffered *)
(* writer: one unit for the 46-byte entry header block (magic, header,     *)
(* send-ID), one unit per payload unit, one unit for a Force-Ack magic.    *)
(* The entryConfBuffer type is not part of src/entryWriter.go; its         *)
(* operations are modelled from the specification (section 4.2).           *)
(***************************************************************************)
EXTENDS Integers, Sequences, FiniteSets, TLC

(***************************************************************************)
(* Program constants and bounds                                            *)
(***************************************************************************)
ACK_SIZE == 12

\* capacity of the confirmation buffer (scaled down from 4096)
MAX_UNCONFIRMED_COUNT == 2

\* capacity of the buffered writer, in output units (scaled down from 4 MiB)
WRITE_BUFFER_SIZE == 3

\* capacity of the buffered ack reader, in bytes
BUFFERED_ACK_READER_SIZE == ACK_SIZE * MAX_UNCONFIRMED_COUNT

\* default ack timeout (time.Second, one time unit)
CLOSING_SERVICE_ACK_TIMEOUT == 1

\* little-endian byte images of the magic numbers, as PutUint32 stores them
CONFIRM_ENTRY_MAGIC == <<126, 48, 224, 246>>

\* largest send-ID the model lets the writer reach
MaxId == 3

\* number of Confirm frames the peer sends in one behaviour
MaxPeerFrames == 2

\* number of Force-Ack frames the writer may emit in one behaviour
MaxForceAcks == 2

\* number of Confirm frames for an unused send-ID the peer sends in one behaviour
MaxStaleFrames == 4

\* number of Confirm frames a peer that sends whole words of garbage sends in
\* one behaviour
MaxWordFrames == 3

\* number of calls of state-changing public methods in one behaviour
MaxCalls == 4

\* values of a decoded u64 at or above this are represented by this value
U64Cap == 65536

VARIABLES
    ecb,         \* confirmation buffer: sequence of [id, ent], oldest first
    id,          \* next send-ID
    wbuf,        \* bIO: units held by the buffered writer
    werr,        \* bIO: sticky error of the buffered writer
    rbuf,        \* bAckReader: bytes held by the buffered reader
    hot,         \* hot flag
    ackTimeout,  \* ack timeout, in time units
    conn,        \* transport: "open", "reset" (peer gone), "closed" (by Close)
    armed,       \* a read deadline is set on the transport
    wire,        \* units handed to the transport, in order
    inq,         \* bytes sent by the peer and not yet read from the transport
    written,     \* history: [id, ent] of every write that returned success
    acked,       \* history: send-IDs that a Confirm found in the buffer
    confirmLog,  \* history: every id passed to Confirm, in order
    peerIds,     \* history: ids of the Confirm frames the peer sent, in order
    closed,      \* history: a Close call has returned
    calls,       \* history: number of state-changing public calls that returned
    last,        \* the last state-changing public call that returned, its result
    pend         \* the public call that holds the mutex and has not returned yet

vars == <<ecb, id, wbuf, werr, rbuf, hot, ackTimeout, conn, armed, wire, inq,
          written, acked, confirmLog, peerIds, closed, calls, last, pend>>

(***************************************************************************)
(* Small helpers                                                           *)
(***************************************************************************)
Min(a, b) == IF a < b THEN a ELSE b

Max(S) == IF S = {} THEN 0 ELSE CHOOSE x \in S : \A y \in S : y <= x

Drop(s, n) == SubSeq(s, n + 1, Len(s))

Take(s, n) == SubSeq(s, 1, n)

Rep(x, n) == [i \in 1..n |-> x]

Ok(s) == [s |-> s, err |-> "nil"]

Fail(s, e) == [s |-> s, err |-> e]

(***************************************************************************)
(* Framing codec: encoding/binary LittleEndian                             *)
(***************************************************************************)
RECURSIVE PutUint(_, _)
PutUint(n, k) == IF k = 0 THEN <<>> ELSE <<n % 256>> \o PutUint(n \div 256, k - 1)

PutUint64(n) == PutUint(n, 8)

RECURSIVE UintLE(_)
UintLE(b) ==
    IF b = <<>> THEN 0
    ELSE Min(U64Cap, Head(b) + 256 * UintLE(Tail(b)))

\* binary.LittleEndian.Uint64(buff[off:]), off counted from 0 as in the source
Uint64(buff, off) == UintLE(SubSeq(buff, off + 1, off + 8))

\* binary.LittleEndian.Uint32(buff[off:]), kept as its four bytes
Uint32(buff, off) == SubSeq(buff, off + 1, off + 4)

ConfirmFrame(i) == CONFIRM_ENTRY_MAGIC \o PutUint64(i)

(***************************************************************************)
(* Confirmation buffer (entryConfBuffer)                                   *)
(***************************************************************************)
Size(b) == MAX_UNCONFIRMED_COUNT

Count(b) == Len(b)

Free(b) == Size(b) - Count(b)

Full(b) == Count(b) = Size(b)

\* mutant: Add appends without looking at Full
Add_unchecked(b, rec) == [ecb |-> Append(b, rec), err |-> "nil"]

Add(b, rec) ==
    IF Full(b) THEN [ecb |-> b, err |-> "full"]
    ELSE [ecb |-> Append(b, rec), err |-> "nil"]

\* mutant: Confirm removes the matching record only, not the earlier ones
Confirm_matchOnly(b, i) ==
    IF \E k \in 1..Len(b) : b[k].id = i
    THEN [ecb |-> SelectSeq(b, LAMBDA r : r.id # i), err |-> "nil"]
    ELSE [ecb |-> b, err |-> "notfound"]

Confirm(b, i) ==
    IF \E k \in 1..Len(b) : b[k].id = i
    THEN LET k == CHOOSE k \in 1..Len(b) : b[k].id = i
         IN [ecb |-> Drop(b, k), err |-> "nil"]
    ELSE [ecb |-> b, err |-> "notfound"]

outstanding(b) == [k \in 1..Len(b) |-> b[k].ent]

(***************************************************************************)
(* Transport (net.Conn) and the two bufio adapters.  The operators below   *)
(* work on a record s holding the writer and environment state of one      *)
(* call: the fields are the variables of the same names, plus              *)
(*   buff    - the first 24 bytes of the scratch buffer ew.buff            *)
(*   flushed - the local of that name in writeEntry                        *)
(*   seg     - how many bytes one conn.Read hands over at most during this *)
(*             call (the network delivers the bytes in flight in pieces,   *)
(*             so what one read brings is not fixed by what the peer sent) *)
(* Each returns [s, err]: the state it leaves and the error it returns.    *)
(***************************************************************************)

\* K of the value of v (v is evaluated once)
Let(v, K(_)) == CHOOSE out \in {K(x) : x \in {v}} : TRUE

\* "if err := r; err != nil { return err }", then K on the state r leaves
Try(r, K(_)) ==
    CHOOSE out \in {IF x.err # "nil" THEN x ELSE K(x.s) : x \in {r}} : TRUE

\* conn.Write(p): all of p goes out, or the write fails with nothing written
connWrite(s, p) ==
    IF s.conn = "open" THEN Ok([s EXCEPT !.wire = @ \o p]) ELSE Fail(s, "io")

\* conn.SetReadDeadline(time.Now().Add(ew.ackTimeout))
setReadDeadline(s) ==
    IF s.conn = "closed" THEN Fail(s, "io") ELSE Ok([s EXCEPT !.armed = TRUE])

\* mutant: the read deadline is left as it is
clearReadDeadline_kept(s) == s

\* conn.SetReadDeadline(time.Time{}); its error is ignored by the callers
clearReadDeadline(s) ==
    IF s.conn = "closed" THEN s ELSE [s EXCEPT !.armed = FALSE]

\* bufio.Writer: Buffered, Available, Flush, Write
Buffered(s) == Len(s.wbuf)

Available(s) == WRITE_BUFFER_SIZE - Len(s.wbuf)

Flush(s) ==
    IF s.werr THEN Fail(s, "io")
    ELSE IF s.wbuf = <<>> THEN Ok(s)
    ELSE Let(connWrite(s, s.wbuf), LAMBDA r :
            IF r.err = "nil" THEN Ok([r.s EXCEPT !.wbuf = <<>>])
            ELSE Fail([s EXCEPT !.werr = TRUE], r.err))

RECURSIVE bioWrite(_, _)
bioWrite(s, p) ==
    IF Len(p) > Available(s) /\ ~s.werr
    THEN IF Buffered(s) = 0
         THEN \* large write, empty buffer: write directly to the transport
              Let(connWrite(s, p), LAMBDA r :
                  IF r.err = "nil" THEN bioWrite(r.s, <<>>)
                  ELSE bioWrite([s EXCEPT !.werr = TRUE], p))
         ELSE \* fill the buffer, flush it, go on with the rest
              Let(Flush([s EXCEPT !.wbuf = @ \o Take(p, Available(s))]), LAMBDA r :
                  bioWrite(r.s, Drop(p, Available(s))))
    ELSE IF s.werr THEN Fail(s, "io")
    ELSE Ok([s EXCEPT !.wbuf = @ \o p])

\* io.ReadFull(ew.bAckReader, ew.buff[lo:hi]), lo and hi counted as in the source.
\* Bytes already buffered are used first; when they run out the reader fills
\* its (empty) buffer by conn.Read, each bringing at most s.seg bytes, until
\* the bytes asked for are there; what the last read brings beyond them stays
\* in the reader.  On failure the bytes read so far are consumed.  A read
\* with no deadline on an open transport that has too few bytes waits
\* ("block"): it has taken nothing yet.
ReadFull(s, lo, hi) ==
    LET k == hi - lo
        into(data) == [j \in 1..Len(s.buff) |->
                          IF lo < j /\ j <= hi THEN data[j - lo] ELSE s.buff[j]]
        need == k - Len(s.rbuf)
        pulled == Min(Len(s.inq), ((need + s.seg - 1) \div s.seg) * s.seg)
    IN IF Len(s.rbuf) >= k
       THEN Ok([s EXCEPT !.rbuf = Drop(@, k), !.buff = into(Take(s.rbuf, k))])
       ELSE IF s.conn = "closed"
       THEN Fail([s EXCEPT !.rbuf = <<>>], "io")
       ELSE IF s.armed /\ s.ackTimeout <= 0
       THEN Fail([s EXCEPT !.rbuf = <<>>], "timeout")
       ELSE IF Len(s.inq) >= need
       THEN Ok([s EXCEPT !.rbuf = SubSeq(s.inq, need + 1, pulled),
                         !.inq = Drop(@, pulled),
                         !.buff = into(s.rbuf \o Take(s.inq, need))])
       ELSE IF ~s.armed /\ s.conn = "open"
       THEN Fail(s, "block")
       ELSE Fail([s EXCEPT !.rbuf = <<>>, !.inq = <<>>],
                 IF s.armed THEN "timeout" ELSE "io")

(***************************************************************************)
(* EntryWriter internals                                                   *)
(***************************************************************************)
FackUnit == <<"fack", 0, 0>>

HeaderUnit(i, ent) == <<"hdr", i, ent>>

DataUnits(i, ent) == [j \in 1..ent |-> <<"data", i, j>>]

writeAll(s, b) == IF Len(b) = 0 THEN Ok(s) ELSE bioWrite(s, b)

throwAckSync(s) == Try(writeAll(s, <<FackUnit>>), LAMBDA t : Flush(t))

\* mutant: an id that is not found pops the head of the buffer
confirmed_popHead(s, i) ==
    Let(Confirm(s.ecb, i), LAMBDA c :
        [s EXCEPT !.ecb = IF c.err = "nil" THEN c.ecb ELSE Tail(c.ecb),
                  !.acked = IF c.err = "nil" THEN @ \cup {i} ELSE @,
                  !.confirmLog = Append(@, i)])

\* ew.ecb.Confirm(id) as readAcks calls it: only the error is taken, and
\* errEntryNotFound is ignored
confirmed(s, i) ==
    Let(Confirm(s.ecb, i), LAMBDA c :
        [s EXCEPT !.ecb = c.ecb,
                  !.acked = IF c.err = "nil" THEN @ \cup {i} ELSE @,
                  !.confirmLog = Append(@, i)])

RECURSIVE readAcks(_, _)
readAcks(s, blocking) ==
    IF Count(s.ecb) > 0 /\ (Len(s.rbuf) >= ACK_SIZE \/ blocking)
    THEN Try(ReadFull(s, 0, ACK_SIZE), LAMBDA r :
            IF Uint32(r.buff, 0) = CONFIRM_ENTRY_MAGIC
            THEN Let(confirmed(r, Uint64(r.buff, 4)), LAMBDA c : readAcks(c, FALSE))
            ELSE IF Uint32(r.buff, 4) = CONFIRM_ENTRY_MAGIC
            THEN Try(ReadFull(r, 8, 16), LAMBDA r2 :
                    Let(confirmed(r2, Uint64(r2.buff, 8)), LAMBDA c : readAcks(c, FALSE)))
            ELSE IF Uint32(r.buff, 8) = CONFIRM_ENTRY_MAGIC
            THEN Try(ReadFull(r, 12, 24), LAMBDA r3 :
                    Let(confirmed(r3, Uint64(r3.buff, 12)), LAMBDA c : readAcks(c, FALSE)))
            ELSE readAcks(r, blocking))
    ELSE Ok(s)

serviceAcks(s, blocking) ==
    Try(IF blocking /\ Buffered(s) > 0 THEN Flush(s) ELSE Ok(s), LAMBDA f :
    Try(readAcks(f, blocking), LAMBDA r :
        IF Full(r.ecb)
        THEN \* still full after reading: force a sync and read again
             Try(throwAckSync(r), LAMBDA t : readAcks(t, TRUE))
        ELSE Ok(r)))

\* mutant: a round that leaves entries outstanding is an error
forceAckRound_once(s) ==
    Try(setReadDeadline(s), LAMBDA d :
    Let(serviceAcks(d, TRUE), LAMBDA r :
        IF r.err = "block" THEN r
        ELSE IF r.err # "nil" \/ Count(r.s.ecb) > 0
        THEN Fail(clearReadDeadline(r.s), IF r.err # "nil" THEN r.err ELSE "incomplete")
        ELSE Ok(clearReadDeadline(r.s))))

\* one round of the loop of forceAckNoLock
forceAckRound(s) ==
    Try(setReadDeadline(s), LAMBDA d :
    Let(serviceAcks(d, TRUE), LAMBDA r :
        IF r.err = "block" THEN r
        ELSE IF r.err # "nil" THEN Fail(clearReadDeadline(r.s), r.err)
        ELSE Ok(clearReadDeadline(r.s))))

RECURSIVE forceAckLoop(_)
forceAckLoop(s) ==
    IF Count(s.ecb) > 0
    THEN Try(forceAckRound(s), LAMBDA r : forceAckLoop(r))
    ELSE Ok(s)

\* mutant: a timeout of the ack service is not returned
forceAckNoLock_swallow(s) ==
    Try(throwAckSync(s), LAMBDA t :
    Let(forceAckLoop(t), LAMBDA r : IF r.err = "timeout" THEN Ok(r.s) ELSE r))

forceAckNoLock(s) == Try(throwAckSync(s), LAMBDA t : forceAckLoop(t))

\* mutant: the error of Add is not looked at
addEntry_ignoreFull(s, ent) ==
    Let(Add(s.ecb, [id |-> s.id, ent |-> ent]), LAMBDA c :
        Ok([s EXCEPT !.ecb = c.ecb,
                     !.id = @ + 1,
                     !.written = Append(@, [id |-> s.id, ent |-> ent])]))

\* mutant: the send-ID is not advanced
addEntry_noIncrement(s, ent) ==
    Let(Add(s.ecb, [id |-> s.id, ent |-> ent]), LAMBDA c :
        IF c.err # "nil" THEN Fail(s, c.err)
        ELSE Ok([s EXCEPT !.ecb = c.ecb,
                          !.written = Append(@, [id |-> s.id, ent |-> ent])]))

\* mutant: the send-ID is advanced also when Add has failed
addEntry_countFailed(s, ent) ==
    Let(Add(s.ecb, [id |-> s.id, ent |-> ent]), LAMBDA c :
        IF c.err # "nil" THEN Fail([s EXCEPT !.id = @ + 1], c.err)
        ELSE Ok([s EXCEPT !.ecb = c.ecb,
                          !.id = @ + 1,
                          !.written = Append(@, [id |-> s.id, ent |-> ent])]))

\* the last step of writeEntry: Add to the confirmation buffer, then ew.id++
addEntry(s, ent) ==
    Let(Add(s.ecb, [id |-> s.id, ent |-> ent]), LAMBDA c :
        IF c.err # "nil" THEN Fail(s, c.err)
        ELSE Ok([s EXCEPT !.ecb = c.ecb,
                          !.id = @ + 1,
                          !.written = Append(@, [id |-> s.id, ent |-> ent])]))

\* the flushed flag it returns is FALSE on error and s.flushed otherwise
writeEntry(s, ent, flush) ==
    \* if our conf buffer is full force an ack service
    Try(IF Full(s.ecb)
        THEN Try(Flush([s EXCEPT !.flushed = FALSE]), LAMBDA f : serviceAcks(f, TRUE))
        ELSE Ok([s EXCEPT !.flushed = FALSE]), LAMBDA a :
    \* magic, header and send-ID
    Try(writeAll(a, <<HeaderUnit(a.id, ent)>>), LAMBDA h :
    \* only flush if we need to
    Try(IF ent > Available(h) THEN Flush([h EXCEPT !.flushed = TRUE]) ELSE Ok(h), LAMBDA p :
    \* the data portion
    Try(writeAll(p, DataUnits(p.id, ent)), LAMBDA d :
    Try(IF flush THEN Flush([d EXCEPT !.flushed = flush]) ELSE Ok(d), LAMBDA y :
        addEntry(y, ent))))))

(***************************************************************************)
(* Public methods, as functions of the call's state record                 *)
(***************************************************************************)
\* mutant: the flush flag is not passed on
writeFlush_noSync(s, ent, flush) ==
    Try(serviceAcks(s, Full(s.ecb)), LAMBDA a : writeEntry(a, ent, FALSE))

writeFlush(s, ent, flush) ==
    Try(serviceAcks(s, Full(s.ecb)), LAMBDA a : writeEntry(a, ent, flush))

WriteWithHint(s, ent) ==
    Try(serviceAcks(s, Full(s.ecb)), LAMBDA a : writeEntry(a, ent, TRUE))

\* mutant: the slice is written last entry first
RECURSIVE WriteBatch_lastFirst(_, _)
WriteBatch_lastFirst(s, ents) ==
    IF ents = <<>> THEN Ok(s)
    ELSE Try(writeEntry(s, ents[Len(ents)], FALSE), LAMBDA w :
             WriteBatch_lastFirst(w, Take(ents, Len(ents) - 1)))

RECURSIVE WriteBatch(_, _)
WriteBatch(s, ents) ==
    IF ents = <<>> THEN Ok(s)
    ELSE Try(writeEntry(s, Head(ents), FALSE), LAMBDA w : WriteBatch(w, Tail(ents)))

\* mutant: Ack services acks without blocking
Ack_noWait(s) ==
    IF Count(s.ecb) = 0 THEN Ok(s) ELSE serviceAcks(s, FALSE)

Ack(s) ==
    IF Count(s.ecb) = 0 THEN Ok(s) ELSE serviceAcks(s, TRUE)

ForceAck(s) == forceAckNoLock(s)

\* conn.Close(); ew.hot = false
shut(s) == [s EXCEPT !.conn = "closed", !.hot = FALSE]

\* mutant: Close returns the ForceAck error without tearing down
Close_leak(s) ==
    Let(forceAckNoLock(s), LAMBDA f :
        IF f.err # "nil" THEN f
        ELSE Let(setReadDeadline(f.s), LAMBDA d :
                 IF d.err # "nil" THEN Fail(shut(d.s), d.err)
                 ELSE Let(readAcks(d.s, TRUE), LAMBDA r :
                          IF r.err = "block" THEN r ELSE Fail(shut(r.s), r.err))))

\* Close after its forceAckNoLock has returned f
closeTail(f) ==
    IF f.err = "block" THEN f
    ELSE IF f.err # "nil" THEN Fail(shut(f.s), f.err)
    ELSE Let(setReadDeadline(f.s), LAMBDA d :
             IF d.err # "nil" THEN Fail(shut(d.s), d.err)
             ELSE Let(readAcks(d.s, TRUE), LAMBDA r :
                      IF r.err = "block" THEN r ELSE Fail(shut(r.s), r.err)))

Close(s) == Let(forceAckNoLock(s), LAMBDA f : closeTail(f))

OverrideAckTimeout(s, t) ==
    IF t <= 0 THEN Fail([s EXCEPT !.ackTimeout = t], "invalid")
    ELSE Ok([s EXCEPT !.ackTimeout = t])

\* mutant: OpenSlots reports the used slots
OpenSlots_count(s) == Count(s.ecb)

OpenSlots(s) == Free(s.ecb)

OptimalBatchWriteSize(s) == Size(s.ecb)

outstandingEntries(s) == outstanding(s.ecb)

(***************************************************************************)
(* State machine                                                           *)
(***************************************************************************)
\* payload lengths of the entries the producers write, in output units
Entries == {1, WRITE_BUFFER_SIZE + 1}

\* the slices given to WriteBatch
Batches == {<<e, 1>> : e \in Entries}

\* the most bytes one conn.Read hands over: a word, or all the reader has room for
Segs == {4, BUFFERED_ACK_READER_SIZE}

\* the durations given to OverrideAckTimeout
Durations == {0, 1}

\* lengths of the garbage the peer may put before a Confirm frame
GarbageLens == 1..8

NoCall == [op |-> "none", err |-> "nil", ret |-> FALSE]

NoPend == [op |-> "none", ent |-> 0]

Init ==
    /\ ecb = <<>>
    /\ id = 1
    /\ wbuf = <<>>
    /\ werr = FALSE
    /\ rbuf = <<>>
    /\ hot = TRUE
    /\ ackTimeout = CLOSING_SERVICE_ACK_TIMEOUT
    /\ conn = "open"
    /\ armed = FALSE
    /\ wire = <<>>
    /\ inq = <<>>
    /\ written = <<>>
    /\ acked = {}
    /\ confirmLog = <<>>
    /\ peerIds = <<>>
    /\ closed = FALSE
    /\ calls = 0
    /\ last = NoCall
    /\ pend = NoPend

\* the state a call starts from
Now(seg) ==
    [ecb |-> ecb, id |-> id, wbuf |-> wbuf, werr |-> werr, rbuf |-> rbuf,
     hot |-> hot, ackTimeout |-> ackTimeout, conn |-> conn, armed |-> armed,
     wire |-> wire, inq |-> inq, written |-> written, acked |-> acked,
     confirmLog |-> confirmLog, seg |-> seg, flushed |-> FALSE,
     buff |-> Rep(0, 24)]

\* the send-IDs of the New-Entry frames in w, in order
HeaderIdsOf(w) ==
    [k \in 1..Len(SelectSeq(w, LAMBDA u : u[1] = "hdr")) |->
        SelectSeq(w, LAMBDA u : u[1] = "hdr")[k][2]]

ForceAcksSent(s) == Len(SelectSeq(s.wire \o s.wbuf, LAMBDA u : u = FackUnit))

\* the running call has brought the writer and the transport to the state s
Commit(s) ==
    /\ s.id <= MaxId + 1
    /\ ForceAcksSent(s) <= MaxForceAcks
    /\ ecb' = s.ecb
    /\ id' = s.id
    /\ wbuf' = s.wbuf
    /\ werr' = s.werr
    /\ rbuf' = s.rbuf
    /\ hot' = s.hot
    /\ ackTimeout' = s.ackTimeout
    /\ conn' = s.conn
    /\ armed' = s.armed
    /\ wire' = s.wire
    /\ inq' = s.inq
    /\ written' = s.written
    /\ acked' = s.acked
    /\ confirmLog' = s.confirmLog

\* the call returns: it leaves the state r.s and the result r.err, ret
Return(op, r, ret) ==
    /\ r.err # "block"
    /\ calls < MaxCalls
    /\ Commit(r.s)
    /\ closed' = (closed \/ op = "Close")
    /\ pend' = NoPend
    /\ calls' = calls + 1
    /\ last' = [op |-> op, err |-> r.err, ret |-> ret]
    /\ UNCHANGED peerIds

DoWrite ==
    \E ent \in Entries, seg \in Segs :
        LET r == writeFlush(Now(seg), ent, FALSE) IN Return("Write", r, FALSE)

DoWriteSync ==
    \E ent \in Entries, seg \in Segs :
        LET r == writeFlush(Now(seg), ent, TRUE) IN Return("WriteSync", r, FALSE)

DoWriteWithHint ==
    \E ent \in Entries, seg \in Segs :
        LET r == WriteWithHint(Now(seg), ent)
        IN Return("WriteWithHint", r, r.err = "nil" /\ r.s.flushed)

DoWriteBatch ==
    \E ents \in Batches, seg \in Segs :
        LET r == WriteBatch(Now(seg), ents) IN Return("WriteBatch", r, FALSE)

DoAck ==
    \E seg \in Segs :
    LET r == Ack(Now(seg)) IN Return("Ack", r, FALSE)

DoForceAck ==
    \E seg \in Segs :
    LET r == ForceAck(Now(seg)) IN Return("ForceAck", r, FALSE)

DoClose ==
    \E seg \in Segs :
    LET r == Close(Now(seg)) IN Return("Close", r, FALSE)

DoOverrideAckTimeout ==
    \E t \in Durations :
        LET r == OverrideAckTimeout(Now(4), t) IN Return("OverrideAckTimeout", r, FALSE)

\* the three queries change nothing; what they return is a function of the state
DoOpenSlots ==
    /\ OpenSlots(Now(4)) \in Int
    /\ UNCHANGED vars

DoOptimalBatchWriteSize ==
    /\ OptimalBatchWriteSize(Now(4)) \in Int
    /\ UNCHANGED vars

DoOutstanding ==
    /\ Len(outstandingEntries(Now(4))) \in Nat
    /\ UNCHANGED vars

\* the peer sends g bytes of garbage (0xFF) and then a Confirm frame for send-ID i
PeerSends(g, i) ==
        /\ conn = "open"
        /\ Len(peerIds) < MaxPeerFrames
        /\ inq' = inq \o Rep(255, g) \o ConfirmFrame(i)
        /\ peerIds' = Append(peerIds, i)
        /\ UNCHANGED <<ecb, id, wbuf, werr, rbuf, hot, ackTimeout, conn, armed,
                       wire, written, acked, confirmLog, closed, calls, last, pend>>

\* a well-behaved peer: Confirm frames back to back
PeerSend == \E i \in 1..MaxId : PeerSends(0, i)

\* a peer whose Confirm frame comes after some garbage
PeerSendGarbled == \E g \in GarbageLens, i \in 1..MaxId : PeerSends(g, i)

\* the peer goes away: writes fail, reads fail once the bytes in flight are read
PeerReset ==
    /\ conn = "open"
    /\ conn' = "reset"
    /\ UNCHANGED <<ecb, id, wbuf, werr, rbuf, hot, ackTimeout, armed, wire, inq,
                   written, acked, confirmLog, peerIds, closed, calls, last, pend>>

Next ==
    \/ DoWrite
    \/ DoWriteSync
    \/ DoWriteWithHint
    \/ DoWriteBatch
    \/ DoAck
    \/ DoForceAck
    \/ DoClose
    \/ DoOverrideAckTimeout
    \/ DoOpenSlots
    \/ DoOptimalBatchWriteSize
    \/ DoOutstanding
    \/ PeerSend
    \/ PeerReset

Spec == Init /\ [][Next]_vars

\* the peer and the producers of the resync checks: synchronous writes, ack
\* service, and Confirm frames with and without garbage before them
NextAcks ==
    \/ DoWriteSync
    \/ DoAck
    \/ DoForceAck
    \/ PeerSend
    \/ PeerSendGarbled

SpecAcks == Init /\ [][NextAcks]_vars

\* a peer that sends Confirm frames for send-ID 0, which no entry ever carries
PeerSendStale ==
    /\ conn = "open"
    /\ Len(peerIds) < MaxStaleFrames
    /\ inq' = inq \o ConfirmFrame(0)
    /\ peerIds' = Append(peerIds, 0)
    /\ UNCHANGED <<ecb, id, wbuf, werr, rbuf, hot, ackTimeout, conn, armed,
                   wire, written, acked, confirmLog, closed, calls, last, pend>>

\* the writes against a window that stays Full: the producers and a peer whose
\* Confirm frames free no slot
NextFull ==
    \/ DoWrite
    \/ DoWriteWithHint
    \/ DoWriteBatch
    \/ DoAck
    \/ PeerSendStale

SpecFull == Init /\ [][NextFull]_vars

\* a peer that puts no, one or two words of garbage (0xFF) before a Confirm frame
PeerSendWords ==
    \E g \in {0, 4, 8}, i \in 1..MaxId :
        /\ conn = "open"
        /\ Len(peerIds) < MaxWordFrames
        /\ inq' = inq \o Rep(255, g) \o ConfirmFrame(i)
        /\ peerIds' = Append(peerIds, i)
        /\ UNCHANGED <<ecb, id, wbuf, werr, rbuf, hot, ackTimeout, conn, armed,
                       wire, written, acked, confirmLog, closed, calls, last, pend>>

\* the writes and Ack against that peer: what one read of the transport brings
\* beyond a window stays in the buffered reader for the calls that follow
NextWords ==
    \/ DoWrite
    \/ DoWriteWithHint
    \/ DoAck
    \/ PeerSendWords

SpecWords == Init /\ [][NextWords]_vars

(***************************************************************************)
(* Calls that wait.  In the specifications above a call is one step, taken *)
(* when the bytes in flight let it return.  Below, a call takes the mutex  *)
(* (pend), and its effects up to a read it has to wait in are visible to   *)
(* the peer while it waits: a write that waits has flushed, and it goes on *)
(* when the peer has answered; ForceAck and Close run their loop one round *)
(* (one read deadline) per step, and the peer may send between rounds.     *)
(* A write that waits is run again from its start when it goes on: what it *)
(* did before the read (the flush) leaves nothing to do a second time.     *)
(***************************************************************************)
Waiting == {"Write", "WriteSync", "WriteWithHint"}

Draining == {"ForceAck", "Close"}

Run(p, s) ==
    CASE p.op = "Write" -> writeFlush(s, p.ent, FALSE)
      [] p.op = "WriteSync" -> writeFlush(s, p.ent, TRUE)
      [] p.op = "WriteWithHint" -> WriteWithHint(s, p.ent)

\* a producer calls Write, WriteSync or WriteWithHint and takes the mutex
CallWrite ==
    \E op \in Waiting, ent \in Entries :
        /\ pend = NoPend
        /\ ~closed
        /\ calls < MaxCalls
        /\ id <= MaxId
        /\ pend' = [op |-> op, ent |-> ent]
        /\ UNCHANGED <<ecb, id, wbuf, werr, rbuf, hot, ackTimeout, conn, armed, wire,
                       inq, written, acked, confirmLog, peerIds, closed, calls, last>>

\* the write runs: to its return, or as far as a read it has to wait in
StepWrite ==
    /\ pend.op \in Waiting
    /\ \E seg \in Segs : \E r \in {Run(pend, Now(seg))} :
           IF r.err = "block"
           THEN /\ Commit(r.s)
                /\ UNCHANGED <<peerIds, closed, calls, last, pend>>
           ELSE Return(pend.op, r,
                       pend.op = "WriteWithHint" /\ r.err = "nil" /\ r.s.flushed)

\* what the call returns when its forceAckNoLock has returned r
finish(op, r) == IF op = "Close" THEN closeTail(r) ELSE r

\* the rounds of one call do not extend the history of confirmed ids, which
\* would grow without bound under a peer that never stops sending
Unlogged(s) == [s EXCEPT !.confirmLog = confirmLog]

\* ForceAck or Close is called: it takes the mutex and sends the Force-Ack
CallDrain ==
    \E op \in Draining :
        /\ pend = NoPend
        /\ ~closed
        /\ calls < MaxCalls
        /\ \E r \in {throwAckSync(Now(BUFFERED_ACK_READER_SIZE))} :
               IF r.err # "nil"
               THEN \E f \in {finish(op, r)} : Return(op, f, FALSE)
               ELSE /\ Commit(r.s)
                    /\ pend' = [op |-> op, ent |-> 0]
                    /\ UNCHANGED <<peerIds, closed, calls, last>>

\* the loop of forceAckNoLock: its exit, or one round under one read deadline
StepDrain ==
    /\ pend.op \in Draining
    /\ \E seg \in Segs :
           IF Count(ecb) = 0
           THEN \E f \in {finish(pend.op, Ok(Now(seg)))} : Return(pend.op, f, FALSE)
           ELSE \E r \in {forceAckRound(Now(seg))} :
                    IF r.err # "nil"
                    THEN \E f \in {finish(pend.op, [r EXCEPT !.s = Unlogged(r.s)])} :
                             Return(pend.op, f, FALSE)
                    ELSE /\ Commit(Unlogged(r.s))
                         /\ UNCHANGED <<peerIds, closed, calls, last, pend>>

\* a peer that, while a ForceAck or Close runs, sends one more Confirm frame
\* for send-ID 0 whenever the writer has read the one before
PeerNag ==
    /\ conn = "open"
    /\ pend.op \in Draining
    /\ inq = <<>>
    /\ rbuf = <<>>
    /\ inq' = ConfirmFrame(0)
    /\ UNCHANGED <<ecb, id, wbuf, werr, rbuf, hot, ackTimeout, conn, armed, wire,
                   written, acked, confirmLog, peerIds, closed, calls, last, pend>>

\* ForceAck and Close against a peer that does not stop: the thread that runs
\* the call keeps running (weak fairness of StepDrain); nothing is assumed of
\* the peer
NextDrain ==
    \/ pend = NoPend /\ DoWriteSync
    \/ pend = NoPend /\ PeerSend
    \/ CallDrain
    \/ StepDrain
    \/ PeerNag

SpecDrain == Init /\ [][NextDrain]_vars /\ WF_vars(StepDrain)

\* the send-IDs of the New-Entry frames that are whole on the transport, in order
Received ==
    HeaderIdsOf(SelectSeq(wire, LAMBDA u :
        u[1] = "hdr" /\ \E k \in 1..Len(wire) : wire[k] = <<"data", u[2], u[3]>>))

\* the frames the peer has received and not answered yet
Unanswered == Drop(Received, Len(peerIds))

\* a peer that answers every New-Entry frame it receives with a Confirm frame
\* for its send-ID, in order
PeerAnswer ==
    /\ conn = "open"
    /\ Unanswered # <<>>
    /\ inq' = inq \o ConfirmFrame(Head(Unanswered))
    /\ peerIds' = Append(peerIds, Head(Unanswered))
    /\ UNCHANGED <<ecb, id, wbuf, werr, rbuf, hot, ackTimeout, conn, armed, wire,
                   written, acked, confirmLog, closed, calls, last, pend>>

\* the pipeline: producers, ForceAck and Close against the answering peer on a
\* transport that does not fail.  The threads of the writer and the peer keep
\* running (weak fairness).  The peer answers within the ack timeout: a round
\* of ForceAck or Close ends when the peer has answered what it received
NextPipeline ==
    \/ CallWrite
    \/ StepWrite
    \/ CallDrain
    \/ Unanswered = <<>> /\ StepDrain
    \/ PeerAnswer

SpecPipeline ==
    /\ Init
    /\ [][NextPipeline]_vars
    /\ WF_vars(StepWrite)
    /\ WF_vars(Unanswered = <<>> /\ StepDrain)
    /\ WF_vars(PeerAnswer)

(***************************************************************************)
(* Properties                                                              *)
(***************************************************************************)
Range(f) == {f[k] : k \in DOMAIN f}

IdsOf(b) == {b[k].id : k \in 1..Len(b)}

IsPrefix(a, b) == Len(a) <= Len(b) /\ a = Take(b, Len(a))

WriteOps == {"Write", "WriteSync", "WriteWithHint", "WriteBatch"}

\* the ids passed to Confirm during the step
NewlyConfirmed == Range(Drop(confirmLog', Len(confirmLog)))

\* C1: after Close has returned, Outstanding() is exactly the entries of the
\* successful writes whose record no Confirm has removed (a Confirm that finds
\* its id removes that record and all earlier ones), in send-ID order.
OutstandingComplete ==
    closed =>
        LET left == SelectSeq(written, LAMBDA w : w.id > Max(acked))
        IN outstandingEntries(Now(4)) = [k \in 1..Len(left) |-> left[k].ent]

OutstandingCompleteWitness ==
    /\ closed
    /\ Len(written) >= 2
    /\ acked # {}
    /\ ecb # <<>>
    /\ \E k \in 1..Len(written) : written[k].id < Max(acked) /\ written[k].id \notin acked

\* C2 (as claimed): after Close has returned, every entry of a successful write
\* that no Confirm frame acknowledged by its own send-ID is in Outstanding(),
\* also when its record was swept by the Confirm of a later send-ID.
NoUnconfirmedLost ==
    closed =>
        \A k \in 1..Len(written) :
            written[k].id \notin acked => written[k] \in Range(ecb)

\* C3: a step that adds no entry leaves in the confirmation buffer exactly the
\* records it held whose send-ID is greater than every id that was passed to
\* Confirm in the step and found in the buffer, in their order.
SweepExact ==
    [][written' = written =>
          ecb' = SelectSeq(ecb, LAMBDA r :
                     r.id > Max({i \in NewlyConfirmed : i \in IdsOf(ecb)}))]_vars

\* a Confirm that left a later record in place, then a Confirm that swept an
\* earlier record
SweepExactWitness ==
    /\ acked = {1, 3}
    /\ Len(written) = 3
    /\ ecb = <<>>

\* C4: the confirmation buffer never holds more records than its capacity.
InFlightBound == Count(ecb) <= Size(ecb)

\* a write reached Add with the buffer Full and was refused
InFlightBoundWitness ==
    /\ Full(ecb)
    /\ last.op \in WriteOps
    /\ last.err = "full"

\* C5: the k-th successful write is recorded with send-ID k, and the next
\* send-ID is one more than the number of successful writes.
MonotonicIds ==
    /\ \A k \in 1..Len(written) : written[k].id = k
    /\ id = Len(written) + 1

MonotonicIdsWitness ==
    /\ Len(written) = 3
    /\ id = 4

ClosedRejects ==
    (closed /\ last.op \in WriteOps \cup {"Ack", "ForceAck"}) => last.err # "nil"

\* C8: once a Close has returned the transport is closed and the writer is not
\* hot, whatever the result of Close; until then the writer is hot.
CloseTearsDown ==
    /\ closed => (~hot /\ conn = "closed")
    /\ ~closed => hot

\* a Close whose ForceAck timed out with an entry outstanding
CloseTearsDownWitness ==
    /\ last.op = "Close"
    /\ last.err = "timeout"
    /\ ecb # <<>>
    /\ ~hot

\* C9: when WriteSync has returned without error the buffered writer is empty
\* and the whole frame of the entry is on the transport.
SyncFlushed ==
    (last.op = "WriteSync" /\ last.err = "nil") =>
        /\ wbuf = <<>>
        /\ LET w == written[Len(written)]
           IN /\ HeaderUnit(w.id, w.ent) \in Range(wire)
              /\ Range(DataUnits(w.id, w.ent)) \subseteq Range(wire)

\* a WriteSync after an earlier successful write
SyncFlushedWitness ==
    /\ last.op = "WriteSync"
    /\ last.err = "nil"
    /\ Len(written) >= 2
    /\ conn = "open"

\* C10 (as claimed): the ids passed to Confirm are the ids of the Confirm frames
\* the peer sent, in stream order, each frame preceded by 0 to 8 garbage bytes;
\* once the whole stream is read, every frame's id has been passed to Confirm.
ResyncTolerant ==
    /\ IsPrefix(confirmLog, peerIds)
    /\ (inq = <<>> /\ rbuf = <<>>) => confirmLog = peerIds

\* the state-changing public call `op` returns in this step
Returns(op) == calls' # calls /\ last'.op = op

\* the units of the New-Entry frames in w, in order (Force-Ack frames left out)
Frames(w) == SelectSeq(w, LAMBDA u : u # FackUnit)

\* C11: a ForceAck that returns nil leaves the confirmation buffer empty; one
\* that returns a timeout leaves a non-empty tail of the buffer it found, which
\* Outstanding() reports, and changes neither the hot flag nor the transport.
ForceAckResult ==
    [][Returns("ForceAck") =>
          /\ last'.err = "nil" => ecb' = <<>>
          /\ last'.err = "timeout" =>
                /\ ecb' # <<>>
                /\ ecb' = Drop(ecb, Len(ecb) - Len(ecb'))
                /\ outstanding(ecb') = [k \in 1..Len(ecb') |-> ecb'[k].ent]
                /\ hot' = hot
                /\ conn' = conn]_vars

\* a ForceAck that confirmed one entry and timed out on the other
ForceAckResultWitness ==
    /\ last.op = "ForceAck"
    /\ last.err = "timeout"
    /\ acked # {}
    /\ ecb # <<>>
    /\ hot
    /\ conn = "open"

\* C14: an Ack with nothing outstanding returns nil and changes nothing; an Ack
\* with entries outstanding that returns nil has passed at least one id, read
\* from a Confirm frame, to Confirm.
AckWaits ==
    [][Returns("Ack") =>
          IF Count(ecb) = 0
          THEN /\ last'.err = "nil"
               /\ UNCHANGED <<ecb, id, wbuf, werr, rbuf, hot, ackTimeout, conn,
                              armed, wire, inq, written, acked, confirmLog>>
          ELSE last'.err = "nil" => Len(confirmLog') > Len(confirmLog)]_vars

\* one write, then an Ack that returned nil: the confirm was read by the Ack
AckWaitsWitness ==
    /\ calls = 2
    /\ last.op = "Ack"
    /\ last.err = "nil"
    /\ Len(written) = 1
    /\ acked = {1}

\* C17: a WriteBatch that returns nil has recorded the entries of its slice with
\* consecutive send-IDs in slice order, and has put their frames, in that order
\* and with nothing of another entry between them, after the frames written
\* before.
BatchAtomic ==
    [][(Returns("WriteBatch") /\ last'.err = "nil") =>
          \E ents \in Batches :
              /\ written' = written \o
                     [k \in 1..Len(ents) |-> [id |-> id + k - 1, ent |-> ents[k]]]
              /\ id' = id + Len(ents)
              /\ Frames(wire' \o wbuf') = Frames(wire \o wbuf)
                     \o <<HeaderUnit(id, ents[1])>> \o DataUnits(id, ents[1])
                     \o <<HeaderUnit(id + 1, ents[2])>> \o DataUnits(id + 1, ents[2])]_vars

\* a batch written after an earlier entry, the first entry of the batch longer
\* than the write buffer
BatchAtomicWitness ==
    /\ last.op = "WriteBatch"
    /\ last.err = "nil"
    /\ Len(written) = 3
    /\ written[2].ent = WRITE_BUFFER_SIZE + 1

\* C18 (as claimed): the ack timeout is positive in every reachable state.
AckTimeoutPositive == ackTimeout > 0

\* C19: a step in which every id passed to Confirm is missing from the buffer,
\* and which adds no entry, leaves the buffer and the next send-ID as they were;
\* and no public call returns the not-found error.
UnknownIgnored ==
    /\ [][(NewlyConfirmed # {} /\ NewlyConfirmed \cap IdsOf(ecb) = {}
             /\ written' = written)
          => (ecb' = ecb /\ id' = id)]_vars
    /\ [](last.err # "notfound")

\* a Confirm for an id that was not in the buffer, with an entry outstanding
UnknownIgnoredWitness ==
    /\ confirmLog # <<>>
    /\ acked = {}
    /\ ecb # <<>>
    /\ last.err = "nil"

\* C20 (as claimed): no public call returns the buffer-full error of Add.
NoBufferFull == last.err # "full"

\* C15 (as claimed): the boolean WriteWithHint returns is true exactly when the
\* call handed bytes of the buffered writer to the transport, whether it
\* returns an error or not.
HintIffFlushed ==
    [][Returns("WriteWithHint") => (last'.ret <=> wire' # wire)]_vars

\* C16 (as claimed): the send-IDs of the New-Entry frames handed to the buffered
\* writer and the transport are strictly increasing: no send-ID goes out twice.
WireIdsIncrease ==
    LET h == HeaderIdsOf(wire \o wbuf)
    IN \A k \in 1..(Len(h) - 1) : h[k] < h[k + 1]

\* C12 (as claimed): every ForceAck and every Close that was called returns
\* (the bound on the Force-Ack frames sent set aside).
DrainReturns ==
    (pend.op \in Draining) ~>
        (pend = NoPend \/ ForceAcksSent(Now(BUFFERED_ACK_READER_SIZE)) >= MaxForceAcks)

SentUnconfirmed ==
    SelectSeq(wire \o wbuf, LAMBDA u : u[1] = "hdr" /\ u[2] > Max(acked))

\* C21 (as claimed): the entries whose New-Entry frame was put into the output
\* and that are not confirmed yet are never more than the capacity of the
\* confirmation buffer: no frame is written while the buffer is Full.
NoFrameWhileFull == Len(SentUnconfirmed) <= Size(ecb)

\* the bytes the peer has sent and the writer has not consumed, in stream order
Stream == rbuf \o inq

\* a whole Confirm frame starts at offset off of the byte sequence st
MagicAt(st, off) ==
    /\ Len(st) >= off + ACK_SIZE
    /\ Uint32(st, off) = CONFIRM_ENTRY_MAGIC

\* the first window of st is a resync window: its magic is at offset off and at
\* no word before
ResyncAt(st, off) ==
    /\ MagicAt(st, off)
    /\ \A o \in {0, 4, 8} : o < off => Uint32(st, o) # CONFIRM_ENTRY_MAGIC

\* C22 (as claimed): when the stream starts with a window whose magic is at
\* offset 4 or at offset 8, the first id a call passes to Confirm is the
\* little-endian u64 of the 8 stream bytes that follow that magic.
ResyncIdFollowsMagic ==
    [][\A off \in {4, 8} :
          (ResyncAt(Stream, off) /\ Len(confirmLog') > Len(confirmLog))
          => confirmLog'[Len(confirmLog) + 1] = Uint64(Stream, off + 4)]_vars

\* C23 (as claimed): a call that starts at a window whose magic is at offset 4
\* or 8, passes that one id to Confirm and so empties the buffer, has consumed
\* the stream exactly to the end of the Confirm frame it discovered.
ResyncStopsAtFrameEnd ==
    [][\A off \in {4, 8} :
          (/\ ResyncAt(Stream, off)
           /\ Len(confirmLog') = Len(confirmLog) + 1
           /\ Count(ecb) > 0
           /\ Count(ecb') = 0)
          => Len(Stream) - Len(Stream') = off + ACK_SIZE]_vars

\* C24 (as claimed): a Write, WriteSync or WriteWithHint that is called while the
\* confirmation buffer is not Full services acks without blocking: it takes no
\* byte from the transport, only bytes the buffered reader already holds.
NonBlockingReadsBuffer ==
    [][((Returns("Write") \/ Returns("WriteSync") \/ Returns("WriteWithHint"))
          /\ ~Full(ecb))
       => inq' = inq]_vars

\* C25: between calls no read deadline is set on the transport of a hot writer,
\* so a write or an Ack that reads on a hot writer reads without deadline; the
\* only call that leaves the deadline other than it found it is Close: a
\* ForceAck that set it has cleared it when it returns, whatever it returns.
DeadlineOnlyInDrain ==
    /\ [](hot => ~armed)
    /\ [][armed' # armed => Returns("Close")]_vars

\* a ForceAck that set the deadline and timed out with the window Full: the
\* write that follows finds the window Full and reads without deadline
DeadlineOnlyInDrainWitness ==
    /\ last.op = "ForceAck"
    /\ last.err = "timeout"
    /\ Full(ecb)
    /\ hot
    /\ conn = "open"
    /\ ~armed

\* the step has added the first k entries of ents, with the next k send-IDs, and
\* nothing of the entries from index k on
AddedOnly(k, ents) ==
    /\ Len(written') = Len(written) + k
    /\ Take(written', Len(written)) = written
    /\ \A j \in 1..k :
           written'[Len(written) + j] = [id |-> id + j - 1, ent |-> ents[j]]
    /\ id' = id + k
    /\ IdsOf(ecb') \subseteq IdsOf(ecb) \cup (id..(id + k - 1))

\* C26: a Write, WriteSync or WriteWithHint that returns an error has added no
\* record and has not advanced the next send-ID; a WriteBatch that returns an
\* error has failed at an index k of its slice: the k entries before it have
\* the next k send-IDs, and the entries from index k on have none and are not in
\* the confirmation buffer.
FailedWriteAddsNothing ==
    [][/\ \A op \in WriteOps \ {"WriteBatch"} :
              (Returns(op) /\ last'.err # "nil") => AddedOnly(0, <<>>)
       /\ (Returns("WriteBatch") /\ last'.err # "nil") =>
              \E ents \in Batches : \E k \in 0..(Len(ents) - 1) : AddedOnly(k, ents)]_vars

\* a WriteBatch, the first call, that added its first entry and failed at the
\* second
FailedWriteAddsNothingWitness ==
    /\ calls = 1
    /\ last.op = "WriteBatch"
    /\ last.err # "nil"
    /\ Len(written) = 1
    /\ id = 2
    /\ IdsOf(ecb) = {1}

====
